---- MODULE Spec2Model ----
(***************************************************************************)
(* Article-to-presentation pipeline of profdl/scrapeApp.                   *)
(*                                                                         *)
(* The model covers the batch controller (create_slides.py: run_batch,     *)
(* process_article), the Streamlit processing loop (app.py), the           *)
(* processed-article ledger (the tracking file), the listing fetcher and   *)
(* the remote collaborators (Slides, Drive, Sheets) as far as the          *)
(* controller observes them.  The listing fetcher is also checked on its   *)
(* own (SpecListing), on listings with repeated links and empty pages, and  *)
(* the caption parser on captions given as text (SpecCaption).  The        *)
(* extractor is followed through one page (SpecExtract): structured-data   *)
(* blocks, image filters and byte-size probe, per-image metadata,          *)
(* de-duplication and the metadata enhancer.  SpecRunBatch is one run of   *)
(* run_batch that keeps taking steps until it has ended; SpecWriters is    *)
(* several controller instances saving to one ledger file, each save a     *)
(* load followed by a write of the whole dictionary.                      *)
(*                                                                         *)
(* URLs are numbers, newest first.  A presentation is identified by the    *)
(* pair (article URL, ordinal of the artifact created for that URL).       *)
(* Outside SpecWriters a file or remote call is atomic: a call that       *)
(* raises has no effect.                                                   *)
(***************************************************************************)
EXTENDS Integers, Sequences, FiniteSets, TLC

\* ---------------------------------------------------------------- bounds
NumUrls == 3         \* article URLs on the site
PageSize == 2        \* links per listing page of the site
MaxCount == 2        \* largest target count given to a run
MaxRuns == 2         \* runs of the controller in one behaviour
MaxFetchErrors == 1  \* listing page fetch errors in one run
MaxLinks == 4        \* SpecListing: links on the listing pages of a site
MaxLinkUrl == 2      \* SpecListing: distinct URLs the links point to
MaxCaptionWords == 4  \* SpecCaption: words of a caption
MaxImages == 2       \* SpecExtract: image elements of a page
MaxWriters == 2      \* SpecWriters: controller instances on one ledger file
MaxBlocks == 2       \* SpecExtract: structured-data blocks of a page
MaxSaves == 3        \* SpecWriters: records an instance writes

\* ------------------------------------------------------ program constants
batch_size == 50        \* run_batch: URLs asked for per discovery round
MinDimension == 50      \* _extract_socks_studio_data: declared width/height
MinContentLength == 5000  \* _extract_socks_studio_data: HEAD probe
SocksPageCeiling == 50  \* _get_socks_studio_urls: "if page > 50: break"
max_pages == 23         \* _get_public_domain_urls

\* The site lists at most NumUrls URLs, or one more than a discovery round
\* asks for (so that discovery needs a second round).
DeepListingLen == batch_size + 1
NoLimit == -1           \* limit=None
NoPresentation == 0     \* presentation_id None
NoAttribute == -1       \* img.get('width') is None
NoHeader == -1          \* head.headers.get('content-length') is None
Unparsable == -2        \* a content-length that int() does not accept
KnownSites == {"socks-studio", "public-domain-review"}
Sites == KnownSites \cup {"other"}

VARIABLES
  site,            \* constructor argument
  mode,            \* "cli": run_batch; "app": the Streamlit script
  credentials,     \* a valid token or credentials.json is present
  sitePages,       \* the site's listing: a sequence of pages of links
  count,           \* target count
  run,             \* number of the current run
  pc,              \* position of the controller
  tracking_file,   \* the ledger: URL -> ordinal of the recorded presentation
  remote,          \* URL -> number of presentations created remotely for it
  catalog,         \* rows of the catalog sheet: <<url, ordinal>>
  drive_folder_id, catalog_sheet_id,   \* set by the setup calls
  article_urls,    \* the work list
  fetched_count,
  i,               \* 1-based index of the item in flight (0 before the first)
  article_data,    \* result of extraction for the item in flight
  presentation_id, \* result of the build for the item in flight
  created_presentations, skipped_count,
  stop_requested, processing,          \* st.session_state
  \* history variables (not read by the program)
  ledgerAtStart,   \* URLs in the ledger when the run started
  attempted,       \* URLs handed to process_article in this run, in order
  fetchErrors,     \* listing page fetch errors in this run
  listingFetches,  \* listing calls made in this run
  createCalls,     \* remote create calls issued in this run
  lastExtract,     \* outcome of the latest extraction of this run
  stopAtItem,      \* value of i when the stop flag was set (-1: not set)
  \* one call of get_article_urls (SpecListing)
  limit,           \* the limit argument of the latest call (NoLimit: None)
  failPage,        \* the page whose fetch raises, if it is requested (0: none)
  lastPage,        \* the last listing page the call requested
  \* one call of parse_figcaption (SpecCaption)
  caption,         \* the caption: its words, <<word, a comma follows>>
  parsed,          \* the dictionary the call returned
  \* one call of extract_article_data (SpecExtract)
  anthropic_client,  \* an API key was found
  soup,            \* the page: its structured-data blocks and its heading
  elements,        \* the image elements of the page, in page order
  metadata,        \* the item's metadata
  images,          \* the image list
  before,          \* history: metadata and images before the enhancement step
  enhancement,     \* history: what the enhancer call did, and the reply
  \* controller instances that write one ledger file (SpecWriters)
  writers,         \* per instance: where it is in save_processed_article
  written          \* history: the writes completed, <<url, instance>>

vars == <<site, mode, credentials, sitePages, count, run, pc, tracking_file,
          remote, catalog, drive_folder_id, catalog_sheet_id, article_urls,
          fetched_count, i, article_data, presentation_id,
          created_presentations, skipped_count, stop_requested, processing,
          ledgerAtStart, attempted,
          fetchErrors, listingFetches, createCalls, lastExtract,
          stopAtItem, limit, failPage, lastPage, caption, parsed,
          anthropic_client, soup, elements, metadata, images, before,
          enhancement, writers, written>>

\* ------------------------------------------------------------- sequences
Range(s) == {s[k] : k \in 1..Len(s)}

\* Mutant: the membership test is gone (every link is appended).
ContainsNever(s, x) == FALSE

Contains(s, x) == \E k \in 1..Len(s) : s[k] = x

\* Python s[n:]
Drop(s, n) == IF n >= Len(s) THEN <<>> ELSE SubSeq(s, n + 1, Len(s))

Min(a, b) == IF a < b THEN a ELSE b

\* ---------------------------------------------------------------- ledger
\* Mutant: the tracking file is never found, so every load gives {}.
load_nothing == [u \in {} |-> 0]

load_processed_articles == tracking_file

\* Mutant: the membership test always answers "not processed".
is_article_processed_never(processed, article_url) == FALSE

is_article_processed(processed, article_url) ==
  article_url \in DOMAIN processed

\* Mutant: the write keeps only the new record (the load is forgotten).
save_only_new(processed, article_url, pid) == [u \in {article_url} |-> pid]

save_processed_article(processed, article_url, pid) ==
  [u \in DOMAIN processed \cup {article_url} |->
     IF u = article_url THEN pid ELSE processed[u]]

\* ------------------------------------------------------- listing fetcher
Truthy(lim) == lim # NoLimit /\ lim # 0

\* The inner loop over the links of one page: returns <<urls, returned>>,
\* returned = TRUE when the limit was reached inside the page.
RECURSIVE CollectLinks(_, _, _)
CollectLinks(links, urls, lim) ==
  IF links = <<>> THEN <<urls, FALSE>>
  ELSE IF Contains(urls, Head(links)) THEN CollectLinks(Tail(links), urls, lim)
  ELSE LET more == Append(urls, Head(links))
       IN IF Truthy(lim) /\ Len(more) >= lim THEN <<more, TRUE>>
          ELSE CollectLinks(Tail(links), more, lim)

\* Mutant: a page fetch error throws the collected URLs away.
OnFetchErrorDrop(urls) == <<>>

\* "except Exception: ... break": the loop ends with what was collected.
OnFetchError(urls) == urls

\* The item elements found on a page; a page past the end of the listing
\* has none.
LinksOf(pages, page) == IF page > Len(pages) THEN <<>> ELSE pages[page]

\* Mutant: the test for a page without items is gone.
EmptyPageIgnored(pages, page) == FALSE

\* "if not articles: break", "if not links: break"
EmptyPage(pages, page) == LinksOf(pages, page) = <<>>

\* Mutant: the page ceiling is never reached.
PastCeilingNever(page, ceiling) == FALSE

\* "if page > 50: break"; the end of "range(1, max_pages + 1)"
PastCeiling(page, ceiling) == page > ceiling

\* The page loop: returns <<urls, the last page requested>>.  fail is the page
\* whose fetch raises (0: none).
RECURSIVE WalkPages(_, _, _, _, _, _)
WalkPages(pages, page, urls, lim, fail, ceiling) ==
  IF page = fail THEN <<OnFetchError(urls), page>>
  ELSE IF EmptyPage(pages, page) THEN <<urls, page>>
  ELSE LET r == CollectLinks(LinksOf(pages, page), urls, lim)
       IN IF r[2] THEN <<r[1], page>>
          ELSE IF PastCeiling(page + 1, ceiling) THEN <<r[1], page>>
          ELSE WalkPages(pages, page + 1, r[1], lim, fail, ceiling)

get_socks_studio_urls(pages, lim, fail) ==
  WalkPages(pages, 1, <<>>, lim, fail, SocksPageCeiling)[1]

get_public_domain_urls(pages, lim, fail) ==
  WalkPages(pages, 1, <<>>, lim, fail, max_pages)[1]

\* The last listing page a call requests (the session's GET requests).
PagesRequested(s, pages, lim, fail) ==
  WalkPages(pages, 1, <<>>, lim, fail,
            IF s = "socks-studio" THEN SocksPageCeiling ELSE max_pages)[2]

\* get_article_urls raises ValueError for any other site.
UnknownSite(s) == s # "socks-studio" /\ s # "public-domain-review"

get_article_urls(s, pages, lim, fail) ==
  IF s = "socks-studio" THEN get_socks_studio_urls(pages, lim, fail)
  ELSE get_public_domain_urls(pages, lim, fail)

\* The pages a listing call can fail on, within the run's error budget.
FailPages == IF fetchErrors < MaxFetchErrors THEN 0..(Len(sitePages) + 1) ELSE {0}

\* ------------------------------------------------------------------ Init
\* Pages of PageSize links each.
Paged(s) ==
  [p \in 1..((Len(s) + PageSize - 1) \div PageSize) |->
     SubSeq(s, (p - 1) * PageSize + 1, Min(p * PageSize, Len(s)))]

\* The site lists the URLs 1..n, newest first.
ListingLengths == (0..NumUrls) \cup {DeepListingLen}

Listings == {Paged([k \in 1..n |-> k]) : n \in ListingLengths}

RECURSIVE Flatten(_)
Flatten(pages) == IF pages = <<>> THEN <<>> ELSE Head(pages) \o Flatten(Tail(pages))

\* The ledger left by earlier runs.  On the long listing all but the last
\* two of the URLs were processed before; otherwise the ledger file does not
\* exist yet.
OldRecorded(pages) ==
  IF Len(Flatten(pages)) = DeepListingLen THEN 1..(batch_size - 1) ELSE {}

\* Each recorded URL has its presentation and its catalog row.
RowsOf(S) == [k \in 1..Cardinality(S) |-> <<k, 1>>]

\* No call of a single function is in progress.
ListingIdle ==
  /\ limit = NoLimit
  /\ failPage = 0
  /\ lastPage = 0

NoFields == [f \in {} |-> <<>>]

CaptionIdle ==
  /\ caption = <<>>
  /\ parsed = NoFields

\* The enhancer's history when the service gave no reply.
NoAnswer(outcome) == [outcome |-> outcome, reply |-> NoFields]

\* A page without structured-data blocks and without a heading.
NoTag == <<>>
NoSoup == [json_ld_scripts |-> <<>>, title_tag |-> NoTag]

ExtractIdle ==
  /\ anthropic_client = FALSE
  /\ soup = NoSoup
  /\ elements = <<>>
  /\ metadata = NoFields
  /\ images = <<>>
  /\ before = [metadata |-> NoFields, images |-> <<>>]
  /\ enhancement = NoAnswer("unset")

\* No further instance is writing the ledger.
WritersIdle ==
  /\ writers = <<>>
  /\ written = {}

UnitIdle == ListingIdle /\ CaptionIdle /\ ExtractIdle /\ WritersIdle

InitWith(m) ==
  /\ site \in Sites
  /\ mode = m
  /\ credentials \in BOOLEAN
  /\ sitePages \in Listings
  /\ count \in 1..MaxCount
  /\ run = 1
  /\ pc = "start"
  /\ tracking_file = [u \in OldRecorded(sitePages) |-> 1]
  /\ remote = [u \in Range(Flatten(sitePages)) |->
                 IF u \in OldRecorded(sitePages) THEN 1 ELSE 0]
  /\ catalog = RowsOf(OldRecorded(sitePages))
  /\ ledgerAtStart = OldRecorded(sitePages)
  /\ drive_folder_id = FALSE
  /\ catalog_sheet_id = FALSE
  /\ article_urls = <<>>
  /\ fetched_count = 0
  /\ i = 0
  /\ article_data = "unset"
  /\ presentation_id = NoPresentation
  /\ created_presentations = <<>>
  /\ skipped_count = 0
  /\ stop_requested = FALSE
  /\ processing = FALSE
  /\ attempted = <<>>
  /\ fetchErrors = 0
  /\ listingFetches = 0
  /\ createCalls = 0
  /\ lastExtract = "unset"
  /\ stopAtItem = -1
  /\ UnitIdle

\* run_batch, started from the command line.
Init == InitWith("cli")

\* The Streamlit script.
InitApp == InitWith("app")

\* ----------------------------------------------------------------- setup
\* __init__: the site argument selects the base URL or raises ValueError.
ValidSite(s) == s \in KnownSites

\* authenticate: sys.exit(1) when neither a token nor credentials.json exists.
\* Mutant: the missing-credentials exit is gone.
AuthenticateAnyway(c) == TRUE

CanAuthenticate(c) == c

Persistent == <<site, mode, credentials, sitePages, count, run>>
Stores == <<tracking_file, remote, catalog>>
RunState == <<article_urls, fetched_count, i, article_data, presentation_id,
              created_presentations, skipped_count>>
Session == <<stop_requested, processing>>
History == <<ledgerAtStart, attempted, fetchErrors, listingFetches,
             createCalls, lastExtract, stopAtItem>>
Unit == <<limit, failPage, lastPage, caption, parsed,
         anthropic_client, soup, elements, metadata, images, before,
         enhancement, writers, written>>

Construct ==
  /\ pc = "start"
  /\ pc' = IF ValidSite(site) THEN "constructed" ELSE "aborted"
  /\ UNCHANGED <<Persistent, Stores, RunState, Session, History,
                 drive_folder_id, catalog_sheet_id>>
  /\ UNCHANGED Unit

Authenticate ==
  /\ pc = "constructed"
  /\ pc' = IF CanAuthenticate(credentials) THEN "authenticated" ELSE "aborted"
  /\ UNCHANGED <<Persistent, Stores, RunState, Session, History,
                 drive_folder_id, catalog_sheet_id>>
  /\ UNCHANGED Unit

\* get_or_create_drive_folder and get_or_create_catalog_sheet; a remote error
\* in either ends the run (run_batch does not catch it, app.py stops).
SetupServices ==
  /\ pc = "authenticated"
  /\ \E ok \in BOOLEAN :
       IF ok
       THEN /\ drive_folder_id' = TRUE
            /\ catalog_sheet_id' = TRUE
            /\ pc' = IF mode = "cli" THEN "discover" ELSE "idle"
       ELSE /\ pc' = "aborted"
            /\ UNCHANGED <<drive_folder_id, catalog_sheet_id>>
  /\ UNCHANGED <<Persistent, Stores, RunState, Session, History>>
  /\ UNCHANGED Unit

\* ------------------------------------------------------------- discovery
\* The for loop of run_batch over new_urls (also app.py's filter loop).
RECURSIVE AppendUnprocessed(_, _, _, _)
AppendUnprocessed(urls, new_urls, processed, n) ==
  IF new_urls = <<>> THEN urls
  ELSE IF ~is_article_processed(processed, Head(new_urls))
       THEN LET more == Append(urls, Head(new_urls))
            IN IF Len(more) >= n THEN more
               ELSE AppendUnprocessed(more, Tail(new_urls), processed, n)
       ELSE AppendUnprocessed(urls, Tail(new_urls), processed, n)

\* One round of the while loop of run_batch.  fetched_count is a local that
\* is not read after the loop: it is cleared when the loop ends.
DiscoverRound ==
  /\ pc = "discover"
  /\ Len(article_urls) < count
  /\ IF UnknownSite(site)
     THEN /\ pc' = "aborted"
          /\ UNCHANGED <<article_urls, fetched_count, fetchErrors,
                         listingFetches, limit>>
     ELSE \E fail \in FailPages :
       LET fetch_limit == fetched_count + batch_size
           all_urls == get_article_urls(site, sitePages, fetch_limit, fail)
           new_urls == Drop(all_urls, fetched_count)
           found == AppendUnprocessed(article_urls, new_urls,
                                      load_processed_articles, count)
       IN /\ fetchErrors' = IF fail = 0 THEN fetchErrors ELSE fetchErrors + 1
          /\ listingFetches' = listingFetches + 1
          /\ limit' = fetch_limit
          /\ IF Len(all_urls) = fetched_count
             THEN /\ pc' = "process"
                  /\ fetched_count' = 0
                  /\ UNCHANGED article_urls
             ELSE /\ article_urls' = found
                  /\ fetched_count' = IF Len(found) < count THEN Len(all_urls) ELSE 0
                  /\ pc' = IF Len(found) < count THEN "discover" ELSE "process"
  /\ UNCHANGED <<Persistent, Stores, Session, drive_folder_id, catalog_sheet_id,
                 i, article_data, presentation_id, created_presentations,
                 skipped_count, ledgerAtStart, attempted, createCalls,
                 lastExtract, stopAtItem>>
  /\ UNCHANGED <<failPage, lastPage, caption, parsed, anthropic_client,
                 soup, elements, metadata, images, before, enhancement,
                 writers, written>>

\* app.py: the Start button; one listing call without a limit, then the filter.
StartButton ==
  /\ pc = "idle"
  /\ ~processing
  /\ IF UnknownSite(site)
     THEN /\ pc' = "aborted"
          /\ processing' = FALSE
          /\ UNCHANGED <<article_urls, fetched_count, fetchErrors, listingFetches>>
     ELSE \E fail \in FailPages :
       LET all_urls == get_article_urls(site, sitePages, NoLimit, fail)
           unprocessed_urls == AppendUnprocessed(<<>>, all_urls,
                                                 load_processed_articles, count)
       IN /\ fetchErrors' = IF fail = 0 THEN fetchErrors ELSE fetchErrors + 1
          /\ listingFetches' = listingFetches + 1
          /\ article_urls' = unprocessed_urls
          /\ UNCHANGED fetched_count
          /\ IF Len(unprocessed_urls) = 0
             THEN pc' = "done" /\ processing' = FALSE
             ELSE pc' = "process" /\ processing' = TRUE
  /\ stop_requested' = FALSE
  /\ UNCHANGED <<Persistent, Stores, drive_folder_id, catalog_sheet_id,
                 i, article_data, presentation_id, created_presentations,
                 skipped_count, ledgerAtStart, attempted, createCalls,
                 lastExtract, stopAtItem>>
  /\ UNCHANGED Unit

\* app.py: the Stop button handler.
StopButton ==
  /\ mode = "app"
  /\ processing
  /\ ~stop_requested
  /\ stop_requested' = TRUE
  /\ stopAtItem' = i
  /\ UNCHANGED <<Persistent, Stores, RunState, processing, pc,
                 drive_folder_id, catalog_sheet_id, ledgerAtStart,
                 attempted, fetchErrors,
                 listingFetches, createCalls, lastExtract>>
  /\ UNCHANGED Unit

\* ------------------------------------------------------------ processing
\* Mutant: only None is treated as "no data"; an empty image list passes.
HasImagesOrEmpty(data) == data = "images" \/ data = "noimages"

\* Truthiness of article_data and of its image list
\* (process_article: "if not article_data or not article_data['images']",
\*  create_presentation: "if not images").
HasImages(data) == data = "images"

\* Mutant: the result of the build is not checked.
BuildNeverFailed(pid) == FALSE

\* process_article: "if not presentation_id: raise".
BuildFailed(pid) == pid = NoPresentation

\* Mutant: the stop flag is never looked at.
StopIgnored == FALSE

\* app.py: "if st.session_state.stop_requested: break" at the head of the loop.
StopHonoured == mode = "app" /\ stop_requested

\* Mutant: an exception ends the loop.
AfterExceptionAbort == "done"

\* Where the loop goes after "except Exception": on to the next item.
AfterException == "process"

CurrentUrl == article_urls[i]

\* Mutant: the except branch does not count the item.
OnExceptionUncounted ==
  /\ pc' = AfterException
  /\ article_data' = "unset"
  /\ presentation_id' = NoPresentation
  /\ UNCHANGED <<skipped_count, created_presentations, article_urls,
                 fetched_count, i>>

\* The except branch of the loop around process_article.
OnException ==
  /\ pc' = AfterException
  /\ skipped_count' = IF mode = "cli" THEN skipped_count + 1 ELSE skipped_count
  /\ article_data' = "unset"
  /\ presentation_id' = NoPresentation
  /\ UNCHANGED <<created_presentations, article_urls, fetched_count, i>>

\* The head of the for loop: stop check (app.py), next item, or the end.
NextItem ==
  /\ pc = "process"
  /\ ~StopHonoured
  /\ i < Len(article_urls)
  /\ i' = i + 1
  /\ attempted' = Append(attempted, article_urls[i + 1])
  /\ pc' = "extract"
  /\ lastExtract' = "unset"
  /\ UNCHANGED <<Persistent, Stores, Session, drive_folder_id, catalog_sheet_id,
                 article_urls, fetched_count, article_data, presentation_id,
                 created_presentations, skipped_count, ledgerAtStart,
                 fetchErrors, listingFetches, createCalls, stopAtItem>>
  /\ UNCHANGED Unit

\* The loop ends: the work list is exhausted, or the stop flag is honoured.
\* app.py's finally block clears both session flags.
EndLoop ==
  /\ pc = "process"
  /\ StopHonoured \/ i = Len(article_urls)
  /\ pc' = "done"
  /\ processing' = FALSE
  /\ stop_requested' = FALSE
  /\ UNCHANGED <<Persistent, Stores, RunState, History, drive_folder_id,
                 catalog_sheet_id>>
  /\ UNCHANGED Unit

\* extract_article_data: None when the page fetch fails, otherwise the
\* metadata with a possibly empty image list; any other error propagates.
Extract ==
  /\ pc = "extract"
  /\ \E result \in {"None", "noimages", "images", "raise"} :
       /\ lastExtract' = result
       /\ IF result # "raise" /\ HasImages(result)
          THEN /\ article_data' = result
               /\ pc' = "build"
               /\ UNCHANGED <<presentation_id, skipped_count,
                              created_presentations, article_urls,
                              fetched_count, i>>
          ELSE OnException
  /\ UNCHANGED <<Persistent, Stores, Session, drive_folder_id,
                 catalog_sheet_id, ledgerAtStart, attempted, fetchErrors,
                 listingFetches, createCalls, stopAtItem>>
  /\ UNCHANGED Unit

\* create_presentation: presentations().create, then one batchUpdate.
\* HttpError is caught and gives None; any other error propagates.  When the
\* create call succeeded the artifact exists whatever happens afterwards.
Build ==
  /\ pc = "build"
  /\ IF ~HasImages(article_data)
     THEN OnException /\ UNCHANGED <<remote, createCalls>>
     ELSE /\ createCalls' = createCalls + 1
          /\ \E outcome \in {"create_fails", "update_fails", "ok"} :
               /\ remote' = IF outcome = "create_fails" THEN remote
                            ELSE [remote EXCEPT ![CurrentUrl] = @ + 1]
               /\ LET pid == IF outcome = "ok" THEN remote'[CurrentUrl]
                             ELSE NoPresentation
                  IN IF BuildFailed(pid)
                     THEN OnException
                     ELSE /\ presentation_id' = pid
                          /\ pc' = "move"
                          /\ UNCHANGED <<article_data, skipped_count,
                                         created_presentations, article_urls,
                                         fetched_count, i>>
  /\ UNCHANGED <<Persistent, tracking_file, catalog, Session, drive_folder_id,
                 catalog_sheet_id, ledgerAtStart, attempted, fetchErrors,
                 listingFetches, lastExtract, stopAtItem>>
  /\ UNCHANGED Unit

\* move_presentation_to_folder, when a folder id is set.
Move ==
  /\ pc = "move"
  /\ \E ok \in BOOLEAN :
       IF ~drive_folder_id \/ ok
       THEN /\ pc' = "save"
            /\ UNCHANGED <<article_data, presentation_id, skipped_count,
                           created_presentations, article_urls, fetched_count, i>>
       ELSE OnException
  /\ UNCHANGED <<Persistent, Stores, Session, History, drive_folder_id,
                 catalog_sheet_id>>
  /\ UNCHANGED Unit

\* save_processed_article: load the file, insert, write the file.
Save ==
  /\ pc = "save"
  /\ \E ok \in BOOLEAN :
       IF ok
       THEN /\ tracking_file' = save_processed_article(load_processed_articles,
                                                       CurrentUrl, presentation_id)
            /\ pc' = "catalog"
            /\ UNCHANGED <<article_data, presentation_id, skipped_count,
                           created_presentations, article_urls, fetched_count, i>>
       ELSE OnException /\ UNCHANGED tracking_file
  /\ UNCHANGED <<Persistent, remote, catalog, Session, History, drive_folder_id,
                 catalog_sheet_id>>
  /\ UNCHANGED Unit

\* add_to_catalog, when a catalog sheet id is set; then process_article
\* returns and the loop body appends to created_presentations (app.py: to
\* st.session_state.results).
Catalog ==
  /\ pc = "catalog"
  /\ \E ok \in BOOLEAN :
       IF ~catalog_sheet_id \/ ok
       THEN /\ catalog' = IF catalog_sheet_id
                          THEN Append(catalog, <<CurrentUrl, presentation_id>>)
                          ELSE catalog
            /\ created_presentations' =
                 Append(created_presentations, <<CurrentUrl, presentation_id>>)
            /\ pc' = "process"
            /\ article_data' = "unset"
            /\ presentation_id' = NoPresentation
            /\ UNCHANGED <<skipped_count, article_urls, fetched_count, i>>
       ELSE OnException /\ UNCHANGED catalog
  /\ UNCHANGED <<Persistent, tracking_file, remote, Session, History,
                 drive_folder_id, catalog_sheet_id>>
  /\ UNCHANGED Unit

\* The controller is started again (a new process, or a new script run).
NextRun ==
  /\ pc = "done"
  /\ run < MaxRuns
  /\ Len(Flatten(sitePages)) <= NumUrls   \* the long listing is followed for one run
  /\ run' = run + 1
  /\ pc' = "start"
  /\ drive_folder_id' = FALSE
  /\ catalog_sheet_id' = FALSE
  /\ article_urls' = <<>>
  /\ fetched_count' = 0
  /\ i' = 0
  /\ article_data' = "unset"
  /\ presentation_id' = NoPresentation
  /\ created_presentations' = <<>>
  /\ skipped_count' = 0
  /\ ledgerAtStart' = DOMAIN tracking_file
  /\ attempted' = <<>>
  /\ fetchErrors' = 0
  /\ listingFetches' = 0
  /\ createCalls' = 0
  /\ lastExtract' = "unset"
  /\ stopAtItem' = -1
  /\ limit' = NoLimit
  /\ UNCHANGED <<site, mode, credentials, sitePages, count, Stores, Session>>
  /\ UNCHANGED <<failPage, lastPage, caption, parsed, anthropic_client,
                 soup, elements, metadata, images, before, enhancement,
                 writers, written>>

Next ==
  \/ Construct
  \/ Authenticate
  \/ SetupServices
  \/ DiscoverRound
  \/ NextItem
  \/ EndLoop
  \/ Extract
  \/ Build
  \/ Move
  \/ Save
  \/ Catalog
  \/ NextRun

Spec == Init /\ [][Next]_vars

\* The controller is at work: it has neither finished nor exited.
Running == pc \notin {"done", "aborted"}

\* run_batch is one sequential process, and every call it makes returns or
\* raises (the HTTP requests carry timeouts): while it is at work it keeps
\* taking steps.  This is weak fairness of Next with "at work" for ENABLED;
\* nothing obliges anybody to start a further run.
\* One run of the controller, from the command line to the summary.
RunBatch ==
  \/ Construct
  \/ Authenticate
  \/ SetupServices
  \/ DiscoverRound
  \/ NextItem
  \/ EndLoop
  \/ Extract
  \/ Build
  \/ Move
  \/ Save
  \/ Catalog

SpecRunBatch ==
  Init /\ [][RunBatch]_vars /\ ([]<>~Running \/ []<><<RunBatch>>_vars)

NextApp ==
  \/ Construct
  \/ Authenticate
  \/ SetupServices
  \/ StartButton
  \/ StopButton
  \/ NextItem
  \/ EndLoop
  \/ Extract
  \/ Build
  \/ Move
  \/ Save
  \/ Catalog
  \/ NextRun

SpecApp == InitApp /\ [][NextApp]_vars

\* ------------------------------------------- the listing fetcher, one call
\* The controller's own state while a single function is exercised.
MainIdle ==
  /\ credentials = FALSE
  /\ count = 1
  /\ run = 1
  /\ tracking_file = [u \in {} |-> 1]
  /\ remote = [u \in {} |-> 0]
  /\ catalog = <<>>
  /\ ledgerAtStart = {}
  /\ drive_folder_id = FALSE
  /\ catalog_sheet_id = FALSE
  /\ fetched_count = 0
  /\ i = 0
  /\ article_data = "unset"
  /\ presentation_id = NoPresentation
  /\ created_presentations = <<>>
  /\ skipped_count = 0
  /\ stop_requested = FALSE
  /\ processing = FALSE
  /\ attempted = <<>>
  /\ fetchErrors = 0
  /\ listingFetches = 0
  /\ createCalls = 0
  /\ lastExtract = "unset"
  /\ stopAtItem = -1

\* The links of a site in listing order: up to MaxLinks links, repeats
\* allowed, possibly none.
LinkSequences == UNION {[1..n -> 1..MaxLinkUrl] : n \in 0..MaxLinks}

\* A listing with one page more than the larger page ceiling, every link new.
LongListing == Paged([k \in 1..((SocksPageCeiling + 1) * PageSize) |-> k])

\* The listings a call is tried on: those links in pages of PageSize, the
\* listings of the controller's runs, and the long listing.
ListingInputs ==
  {Paged(links) : links \in LinkSequences} \cup Listings \cup {LongListing}

Limits == {NoLimit, batch_size} \cup (0..(MaxLinkUrl + 1))

InitListing ==
  /\ mode = "listing"
  /\ pc = "call"
  /\ site \in Sites
  /\ sitePages \in ListingInputs
  /\ limit \in Limits
  /\ failPage \in 0..(Len(sitePages) + 1)
  /\ lastPage = 0
  /\ article_urls = <<>>
  /\ MainIdle
  /\ CaptionIdle
  /\ ExtractIdle
  /\ WritersIdle

\* One call of get_article_urls(limit).
GetArticleUrls ==
  /\ pc = "call"
  /\ IF UnknownSite(site)
     THEN /\ pc' = "raised"
          /\ UNCHANGED <<article_urls, lastPage>>
     ELSE /\ article_urls' = get_article_urls(site, sitePages, limit, failPage)
          /\ lastPage' = PagesRequested(site, sitePages, limit, failPage)
          /\ pc' = "returned"
  /\ UNCHANGED <<Persistent, Stores, Session, History, drive_folder_id,
                 catalog_sheet_id, fetched_count, i, article_data,
                 presentation_id, created_presentations, skipped_count,
                 limit, failPage, caption, parsed, anthropic_client,
                 soup, elements, metadata, images, before, enhancement,
                 writers, written>>

NextListing == GetArticleUrls

SpecListing == InitListing /\ [][NextListing]_vars

\* ------------------------------------------------------ the caption parser
\* Text is a sequence of one-character strings.
Digits == {"0", "1", "2", "3", "4", "5", "6", "7", "8", "9"}
Letters == {"a", "b", "U", "n", "k", "o", "w", "u"}
WordChars == Digits \cup Letters   \* what the pattern's \b takes for a word

\* str.strip()
RECURSIVE LStrip(_)
LStrip(s) == IF s # <<>> /\ Head(s) = " " THEN LStrip(Tail(s)) ELSE s

RECURSIVE RStrip(_)
RStrip(s) ==
  IF s # <<>> /\ s[Len(s)] = " " THEN RStrip(SubSeq(s, 1, Len(s) - 1)) ELSE s

Strip(s) == RStrip(LStrip(s))

\* str.split(c): one more part than there are separators.
RECURSIVE Split(_, _)
Split(s, c) ==
  IF \A k \in 1..Len(s) : s[k] # c THEN <<s>>
  ELSE LET k == CHOOSE j \in 1..Len(s) : s[j] = c /\ \A h \in 1..(j - 1) : s[h] # c
       IN <<SubSeq(s, 1, k - 1)>> \o Split(SubSeq(s, k + 1, Len(s)), c)

\* sep.join(parts)
RECURSIVE Join(_, _)
Join(parts, sep) ==
  IF parts = <<>> THEN <<>>
  ELSE IF Len(parts) = 1 THEN parts[1]
  ELSE parts[1] \o sep \o Join(Tail(parts), sep)

\* The pattern \b(1\d{3}|20\d{2})\b matches at place k of s.
YearAt(s, k) ==
  /\ k + 3 <= Len(s)
  /\ \/ s[k] = "1" /\ s[k + 1] \in Digits
     \/ s[k] = "2" /\ s[k + 1] = "0"
  /\ s[k + 2] \in Digits
  /\ s[k + 3] \in Digits
  /\ k = 1 \/ s[k - 1] \notin WordChars
  /\ k + 3 = Len(s) \/ s[k + 4] \notin WordChars

\* Mutant: the search finds no year.
YearSearchNone(s) == 0

\* re.search: the leftmost match (0: no match).
YearSearch(s) ==
  IF \E k \in 1..Len(s) : YearAt(s, k)
  THEN CHOOSE k \in 1..Len(s) : YearAt(s, k) /\ \A j \in 1..(k - 1) : ~YearAt(s, j)
  ELSE 0

\* Mutant: the year is left in the text.
ReplaceNothing(s, old) == s

\* str.replace(old, ''): every occurrence of old is taken out, left to right.
RECURSIVE Replace(_, _)
Replace(s, old) ==
  IF Len(s) < Len(old) THEN s
  ELSE IF SubSeq(s, 1, Len(old)) = old
       THEN Replace(SubSeq(s, Len(old) + 1, Len(s)), old)
       ELSE <<Head(s)>> \o Replace(Tail(s), old)

\* The returned dictionary is a function on the keys that were set.
parse_figcaption(caption_text) ==
  IF caption_text = <<>> THEN NoFields
  ELSE LET split == Split(caption_text, ",")
           parts == [k \in 1..Len(split) |-> Strip(split[k])]
       IN IF Len(parts) < 2 THEN NoFields
          ELSE LET joined == Join(Tail(parts), <<",", " ">>)
                   at == YearSearch(joined)
                   year == SubSeq(joined, at, at + 3)
                   title_and_more == IF at = 0 THEN joined
                                     ELSE Strip(Replace(joined, year))
                   remaining == Split(title_and_more, ",")
               IN ("artist" :> parts[1]) @@
                  (IF at = 0 THEN NoFields ELSE ("year" :> year)) @@
                  ("title" :> Strip(remaining[1])) @@
                  (IF Len(remaining) > 1
                   THEN ("medium" :> Strip(remaining[Len(remaining)]))
                   ELSE NoFields)

\* Captions are written with these words and 4-digit numbers; a comma may
\* follow a word or stand alone.
WordTokens == {<<"a">>, <<"b">>}
NumberTokens == {<<"1", "9", "8", "7">>, <<"2", "0", "0", "5">>,
                 <<"2", "1", "5", "0">>}
CaptionItems ==
  ((WordTokens \cup NumberTokens \cup {<<>>}) \X BOOLEAN) \ {<<<<>>, FALSE>>}

\* The text of a caption: its words one blank apart, commas attached.
RECURSIVE Render(_)
Render(items) ==
  IF items = <<>> THEN <<>>
  ELSE LET word == Head(items)[1] \o (IF Head(items)[2] THEN <<",">> ELSE <<>>)
       IN IF Len(items) = 1 THEN word
          ELSE word \o <<" ">> \o Render(Tail(items))

CaptionInputs == UNION {[1..n -> CaptionItems] : n \in 0..MaxCaptionWords}

InitCaption ==
  /\ mode = "caption"
  /\ pc = "call"
  /\ caption \in CaptionInputs
  /\ parsed = NoFields
  /\ site = "socks-studio"
  /\ sitePages = <<>>
  /\ article_urls = <<>>
  /\ MainIdle
  /\ ListingIdle
  /\ ExtractIdle
  /\ WritersIdle

\* One call of parse_figcaption(caption_text, fallback_metadata).
ParseFigcaption ==
  /\ pc = "call"
  /\ parsed' = parse_figcaption(Render(caption))
  /\ pc' = "returned"
  /\ UNCHANGED <<Persistent, Stores, RunState, Session, History,
                 drive_folder_id, catalog_sheet_id, limit, failPage, lastPage,
                 caption, anthropic_client, soup, elements, metadata,
                 images, before, enhancement, writers, written>>

NextCaption == ParseFigcaption

SpecCaption == InitCaption /\ [][NextCaption]_vars

\* ------------------------------------------------------------ the extractor
Unknown == <<"U", "n", "k", "n", "o", "w", "n">>
unknown == <<"u", "n", "k", "n", "o", "w", "n">>
ImagesMedium == <<"I", "m", "a", "g", "e", "s">>

\* _extract_socks_studio_data: "if width and height: ... if int(width) < 50
\* or int(height) < 50: continue".
TooSmall(width, height) ==
  /\ width # NoAttribute
  /\ height # NoAttribute
  /\ width < MinDimension \/ height < MinDimension

\* The element is one the loop goes over: socks-studio takes the img of each
\* <figure> of the content region (with or without a figcaption),
\* public-domain-review every img of the gallery.
\* Mutant: every img of the content region is taken.
EnumeratedAnyImg(s, element) == TRUE

Enumerated(s, element) == element.figure

\* The URL carries a marker of a small image: 'icon' or 'logo' for both
\* sites, a thumbnail suffix for socks-studio, a width parameter below 200
\* for public-domain-review.
MarkedSmall(s, marker) ==
  \/ marker \in {"icon", "logo"}
  \/ s = "socks-studio" /\ marker \in {"-150x150", "-300x", "thumbnail"}
  \/ s = "public-domain-review" /\ marker = "width=100"

\* Mutant: an error of the probe rejects the image.
ProbeFailsClosed(probe) ==
  \/ probe.raises
  \/ probe.content_length \in {NoHeader, Unparsable}
  \/ probe.content_length < MinContentLength

\* "try: head = ...; if content_length and int(content_length) < 5000:
\*  continue / except: pass"
ProbeRejects(probe) ==
  /\ ~probe.raises
  /\ probe.content_length \notin {NoHeader, Unparsable}
  /\ probe.content_length < MinContentLength

\* The declared size and the byte-size probe decide for socks-studio only:
\* the loop of _extract_public_domain_data does not read the width and
\* height attributes and sends no HEAD request.
Rejected(s, element) ==
  \/ ~Enumerated(s, element)
  \/ MarkedSmall(s, element.marker)
  \/ /\ s = "socks-studio"
     /\ \/ TooSmall(element.width, element.height)
        \/ ProbeRejects(element.probe)

\* Mutant: whatever the caption parser set is taken.
PickOwnIfSet(artwork, key, fallback) ==
  IF key \in DOMAIN artwork THEN artwork[key] ELSE fallback

\* "artwork_metadata.get(k) if artwork_metadata.get(k) and
\*  artwork_metadata.get(k) != 'Unknown' else metadata.get(...)"
Pick(artwork, key, fallback) ==
  IF key \in DOMAIN artwork /\ artwork[key] # <<>> /\ artwork[key] # Unknown
  THEN artwork[key]
  ELSE fallback

\* "figcaption.get_text(strip=True) if figcaption else ''"
CaptionText(element) ==
  IF element.figcaption THEN Render(element.caption) ELSE <<>>

\* The entry appended for an image element (element: its place on the page).
ImageOf(element, k, meta) ==
  LET caption_text == CaptionText(element)
      artwork_metadata == parse_figcaption(caption_text)
  IN [url |-> element.url,
      caption |-> caption_text,
      artist |-> Pick(artwork_metadata, "artist", meta["author"]),
      title |-> Pick(artwork_metadata, "title", meta["title"]),
      year |-> Pick(artwork_metadata, "year", meta["year"]),
      medium |-> Pick(artwork_metadata, "medium", meta["medium"]),
      element |-> k]

\* The loop over the image elements of the content region.
RECURSIVE CollectImages(_, _, _, _)
CollectImages(s, elems, k, meta) ==
  IF k > Len(elems) THEN <<>>
  ELSE (IF Rejected(s, elems[k]) THEN <<>> ELSE <<ImageOf(elems[k], k, meta)>>)
       \o CollectImages(s, elems, k + 1, meta)

RECURSIVE UniqueFrom(_, _)
UniqueFrom(imgs, seen) ==
  IF imgs = <<>> THEN <<>>
  ELSE IF Head(imgs).url \in seen THEN UniqueFrom(Tail(imgs), seen)
  ELSE <<Head(imgs)>> \o UniqueFrom(Tail(imgs), seen \cup {Head(imgs).url})

\* Mutant: the list is returned as it was collected.
all_images(imgs) == imgs

\* "Remove duplicates while preserving order (based on URL)"
unique_images(imgs) == UniqueFrom(imgs, {})

\* dict.get(key): None and a missing value count as empty text.
Get(result, key) == IF key \in DOMAIN result THEN result[key] ELSE <<>>

\* enhance_metadata_with_llm returns <<is None, result>>.  answer is what the
\* service did: it raised, or it replied with the text after each label.
enhance_metadata_with_llm(client, answer) ==
  IF ~client THEN <<TRUE, NoFields>>
  ELSE IF answer.raises THEN <<TRUE, NoFields>>
  ELSE LET reply == answer.reply
       IN <<FALSE,
            (IF "Artist" \in DOMAIN reply /\ reply["Artist"] \notin {Unknown, unknown}
             THEN ("author" :> reply["Artist"]) ELSE NoFields) @@
            (IF "Year" \in DOMAIN reply /\ reply["Year"] # Unknown
             THEN ("year" :> reply["Year"]) ELSE NoFields) @@
            (IF "Medium" \in DOMAIN reply /\ reply["Medium"] # Unknown
             THEN ("medium" :> reply["Medium"]) ELSE NoFields) @@
            (IF "Keywords" \in DOMAIN reply /\ reply["Keywords"] \notin {Unknown, unknown}
             THEN ("keywords" :> reply["Keywords"]) ELSE NoFields)>>

\* Mutant: the result is used without looking at it.
HasResultUnchecked(enhanced) == TRUE

\* "if enhanced_metadata:" (None and the empty dictionary are falsy).
HasResult(enhanced) == ~enhanced[1] /\ DOMAIN enhanced[2] # {}

\* Mutant: the enhancer's value always wins.
Overwrite(old, new) == IF new # <<>> THEN new ELSE old

\* "if metadata[k] == 'Unknown' and enhanced_metadata.get(k)"
Fill(old, new) == IF old = Unknown /\ new # <<>> THEN new ELSE old

\* The metadata after the enhancer's result was merged in (socks-studio).
MergeSocks(meta, result) ==
  (IF Get(result, "keywords") # <<>>
   THEN ("keywords" :> result["keywords"]) ELSE NoFields) @@
  [key \in DOMAIN meta |->
     IF key \in {"author", "year", "medium"}
     THEN Fill(meta[key], Get(result, key))
     ELSE meta[key]]

\* "Update image data with enhanced metadata" (socks-studio)
UpdateSocks(imgs, meta) ==
  [k \in 1..Len(imgs) |->
     [imgs[k] EXCEPT
        !.artist = IF @ = Unknown /\ meta["author"] # Unknown THEN meta["author"] ELSE @,
        !.medium = IF @ = Unknown /\ meta["medium"] # Unknown THEN meta["medium"] ELSE @,
        !.year = IF @ = Unknown /\ meta["year"] # Unknown THEN meta["year"] ELSE @]]

\* Only the keywords are taken (public-domain-review).
MergePublicDomain(meta, result) ==
  (IF Get(result, "keywords") # <<>>
   THEN ("keywords" :> result["keywords"]) ELSE NoFields) @@ meta

\* "Update image data with finalized metadata" (public-domain-review)
UpdatePublicDomain(imgs, meta) ==
  [k \in 1..Len(imgs) |->
     [imgs[k] EXCEPT
        !.medium = IF @ = Unknown /\ meta["medium"] # Unknown THEN meta["medium"] ELSE @]]

\* The metadata dictionary before the page is read.
FreshMetadata ==
  ("author" :> Unknown) @@ ("title" :> Unknown) @@
  ("year" :> Unknown) @@ ("medium" :> Unknown)

\* re.search(r'(\d{4})', text): the leftmost four digits (0: no match).
FourDigitsAt(s, k) == k + 3 <= Len(s) /\ \A j \in k..(k + 3) : s[j] \in Digits

DateSearch(s) ==
  IF \E k \in 1..Len(s) : FourDigitsAt(s, k)
  THEN CHOOSE k \in 1..Len(s) :
         FourDigitsAt(s, k) /\ \A j \in 1..(k - 1) : ~FourDigitsAt(s, j)
  ELSE 0

\* A structured-data block is [dict, data]: whether json.loads gave a
\* dictionary, and its keys.  The value of "author" is [type, fields], type
\* "dict", "list" (a list whose first entry is a dictionary) or "str".
\* x.get('name', 'Unknown')
AuthorName(author) ==
  IF "name" \in DOMAIN author.fields THEN author.fields["name"] ELSE Unknown

\* "if 'headline' in data: ... elif 'name' in data: ..."
ReadTitle(meta, data) ==
  IF "headline" \in DOMAIN data THEN [meta EXCEPT !["title"] = data["headline"]]
  ELSE IF "name" \in DOMAIN data THEN [meta EXCEPT !["title"] = data["name"]]
  ELSE meta

\* The body of the JSON-LD loop of _extract_socks_studio_data.
ReadBlockSocks(meta, block) ==
  IF ~block.dict THEN meta
  ELSE LET data == block.data
           m1 == IF "author" \in DOMAIN data /\ data["author"].type = "dict"
                 THEN [meta EXCEPT !["author"] = AuthorName(data["author"])]
                 ELSE meta
           m2 == ReadTitle(m1, data)
           at == IF "datePublished" \in DOMAIN data
                 THEN DateSearch(data["datePublished"]) ELSE 0
           m3 == IF at # 0
                 THEN [m2 EXCEPT !["year"] = SubSeq(data["datePublished"], at, at + 3)]
                 ELSE m2
       IN IF "keywords" \in DOMAIN data
          THEN [m3 EXCEPT !["medium"] = data["keywords"]]
          ELSE m3

\* The body of the JSON-LD loop of _extract_public_domain_data.
ReadBlockPublicDomain(meta, block) ==
  IF ~block.dict THEN meta
  ELSE LET data == block.data
           m1 == ReadTitle(meta, data)
       IN IF "author" \in DOMAIN data /\ data["author"].type \in {"dict", "list"}
          THEN [m1 EXCEPT !["author"] = AuthorName(data["author"])]
          ELSE m1

ReadBlock(s, meta, block) ==
  IF s = "socks-studio" THEN ReadBlockSocks(meta, block)
  ELSE ReadBlockPublicDomain(meta, block)

\* "for script in json_ld_scripts": every block is read, in page order.
RECURSIVE ReadBlocks(_, _, _)
ReadBlocks(s, meta, scripts) ==
  IF scripts = <<>> THEN meta
  ELSE ReadBlocks(s, ReadBlock(s, meta, Head(scripts)), Tail(scripts))

\* "if metadata['title'] == 'Unknown': title_tag = soup.find('h1') ..."
TitleFallback(meta, title_tag) ==
  IF meta["title"] = Unknown /\ title_tag # NoTag
  THEN [meta EXCEPT !["title"] = title_tag]
  ELSE meta

\* public-domain-review: the artist taken from the title.  The titles here
\* have no apostrophe and no parenthesis, which leaves the second pattern:
\* a title of two to four words, shorter than 50 characters, is the name.
AuthorFromTitle(meta) ==
  LET words == SelectSeq(Split(meta["title"], " "), LAMBDA w : w # <<>>)
  IN IF /\ meta["author"] = Unknown
        /\ meta["title"] # Unknown
        /\ Len(words) >= 2 /\ Len(words) <= 4
        /\ Len(meta["title"]) < 50
     THEN [meta EXCEPT !["author"] = Strip(meta["title"])]
     ELSE meta

\* The metadata of the page before its images are collected.
ReadPage(s, meta, page) ==
  LET read == TitleFallback(ReadBlocks(s, meta, page.json_ld_scripts),
                            page.title_tag)
  IN IF s = "socks-studio" THEN read ELSE AuthorFromTitle(read)

\* "Set medium to 'Images' for PDR collections"
Finalized(s, meta) ==
  IF s = "public-domain-review" /\ meta["medium"] = Unknown
  THEN [meta EXCEPT !["medium"] = ImagesMedium]
  ELSE meta

\* The pages an extraction is tried on.
ImageUrls == {"img1", "img2"}
Dimensions == {<<NoAttribute, NoAttribute>>, <<120, 40>>, <<40, 120>>,
               <<MinDimension, MinDimension>>, <<NoAttribute, 40>>}
NoCaption == <<>>
ArtistTitle == <<<<<<"a">>, TRUE>>, <<<<"b">>, FALSE>>>>
UnknownArtist ==
  <<<<Unknown, TRUE>>, <<<<"b">>, TRUE>>, <<<<"a">>, TRUE>>,
    <<<<"1", "9", "8", "7">>, FALSE>>>>
FullCaption ==
  <<<<<<"b">>, TRUE>>, <<<<"a">>, TRUE>>, <<<<"2", "0", "0", "5">>, TRUE>>,
    <<<<"b">>, FALSE>>>>

\* The probe of an image: it raises, or answers with a content length.
NoLength == [raises |-> FALSE, content_length |-> NoHeader]

Probes ==
  {[raises |-> TRUE, content_length |-> NoHeader]} \cup
  {[raises |-> FALSE, content_length |-> n] :
     n \in {NoHeader, Unparsable, 0, MinContentLength - 1, MinContentLength}}

\* An img of a figure (of the gallery); it has a caption element when it has
\* a caption text, its URL carries no marker and its probe gives no length.
Element(u, width, height, c) ==
  [url |-> u, width |-> width, height |-> height, caption |-> c,
   figure |-> TRUE, figcaption |-> c # NoCaption, marker |-> "",
   probe |-> NoLength]

\* Elements that differ in their declared size.
SizedElements ==
  {Element(u, d[1], d[2], c) :
     u \in ImageUrls, d \in Dimensions, c \in {NoCaption, ArtistTitle}}

\* Elements that differ in their caption.
CaptionedElements ==
  {Element(u, NoAttribute, NoAttribute, c) :
     u \in ImageUrls,
     c \in {NoCaption, ArtistTitle, UnknownArtist, FullCaption}}

\* Elements that differ in what the probe answers.
ProbedElements ==
  {[Element(u, NoAttribute, NoAttribute, ArtistTitle) EXCEPT !.probe = p] :
     u \in ImageUrls, p \in Probes}

\* Elements that differ in where they stand (inside a figure or not, with a
\* caption element or not) and in the marker of their URL.
PlacedElements ==
  {[Element(u, NoAttribute, NoAttribute, ArtistTitle) EXCEPT
      !.figure = place[1], !.figcaption = place[2], !.marker = place[3]] :
     u \in ImageUrls,
     place \in {<<TRUE, TRUE, "">>, <<TRUE, FALSE, "">>, <<FALSE, TRUE, "">>,
                <<TRUE, TRUE, "icon">>, <<TRUE, TRUE, "thumbnail">>,
                <<TRUE, TRUE, "width=100">>}}

PagesOf(kinds) == UNION {[1..n -> kinds] : n \in 0..MaxImages}

\* The item metadata after the structured-data blocks and the title were read.
ItemMetadata(author, year, medium) ==
  ("author" :> author) @@ ("title" :> <<"b", "a">>) @@
  ("year" :> year) @@ ("medium" :> medium)

ItemMetadatas ==
  {ItemMetadata(author, year, medium) :
     author \in {Unknown, <<"a", "b">>},
     year \in {Unknown, <<"1", "9", "8", "7">>},
     medium \in {Unknown, <<"b", "b">>}}

\* What the text-completion service can do: raise, reply with no label, or
\* reply with every label.
Replies ==
  {NoFields} \cup
  {("Artist" :> artist) @@ ("Year" :> year) @@ ("Medium" :> medium) @@
   ("Keywords" :> <<"a", "a">>) :
     artist \in {Unknown, <<"a", "a">>},
     year \in {Unknown, <<"2", "0", "0", "5">>},
     medium \in {Unknown, <<"a", "a">>}}

Answers ==
  {[raises |-> TRUE, reply |-> NoFields]} \cup
  {[raises |-> FALSE, reply |-> r] : r \in Replies}

\* Structured-data blocks.
AuthorDict(fields) == [type |-> "dict", fields |-> fields]
Dict(data) == [dict |-> TRUE, data |-> data]
NotADict == [dict |-> FALSE, data |-> NoFields]
Date == <<"2", "0", "0", "5", "-", "0", "3">>

Blocks ==
  {NotADict,
   Dict(("author" :> AuthorDict("name" :> <<"a", "b">>)) @@ ("headline" :> <<"a">>)),
   Dict(("headline" :> <<"b">>) @@ ("name" :> <<"a">>) @@
        ("datePublished" :> Date) @@ ("keywords" :> <<"b", "b">>)),
   Dict(("name" :> <<"a", " ", "b">>) @@ ("datePublished" :> <<"b">>)),
   Dict("author" :> [type |-> "list", fields |-> ("name" :> <<"b">>)]),
   Dict("author" :> [type |-> "str", fields |-> NoFields]),
   Dict("author" :> AuthorDict(NoFields))}

\* Pages that differ in their blocks and their heading.
Soups ==
  {[json_ld_scripts |-> scripts, title_tag |-> tag] :
     scripts \in UNION {[1..n -> Blocks] : n \in 1..MaxBlocks},
     tag \in {NoTag, <<"b", "a">>}}

InitExtract ==
  /\ mode = "extract"
  /\ pc = "extract"
  /\ site \in KnownSites
  /\ anthropic_client \in BOOLEAN
  /\ \/ /\ elements \in PagesOf(SizedElements)
        /\ metadata = ItemMetadata(Unknown, Unknown, Unknown)
        /\ soup = NoSoup
     \/ /\ elements \in PagesOf(CaptionedElements)
        /\ metadata \in ItemMetadatas
        /\ soup = NoSoup
     \/ /\ elements \in PagesOf(ProbedElements \cup PlacedElements)
        /\ metadata = ItemMetadata(<<"a", "b">>, Unknown, Unknown)
        /\ soup = NoSoup
     \/ /\ elements \in [1..1 -> {e \in CaptionedElements :
                                    e.url = "img1" /\ e.caption = NoCaption}]
        /\ metadata = FreshMetadata
        /\ soup \in Soups
  /\ images = <<>>
  /\ before = [metadata |-> NoFields, images |-> <<>>]
  /\ enhancement = NoAnswer("unset")
  /\ sitePages = <<>>
  /\ article_urls = <<>>
  /\ MainIdle
  /\ ListingIdle
  /\ CaptionIdle
  /\ WritersIdle

ExtractFrame ==
  <<Persistent, Stores, RunState, Session, drive_folder_id, catalog_sheet_id,
    ledgerAtStart, attempted, fetchErrors, listingFetches, createCalls,
    stopAtItem, limit, failPage, lastPage, caption, parsed, anthropic_client,
    soup, elements, writers, written>>

\* The page is fetched (None on an error), the images are collected and
\* de-duplicated; public-domain-review then sets an unresolved medium to
\* 'Images'.
CollectPage ==
  /\ pc = "extract"
  /\ \E ok \in BOOLEAN :
       IF ~ok
       THEN /\ lastExtract' = "None"
            /\ pc' = "returned"
            /\ UNCHANGED <<metadata, images, before>>
       ELSE LET read == ReadPage(site, metadata, soup)
                collected == unique_images(CollectImages(site, elements, 1, read))
                finalized == Finalized(site, read)
            IN /\ images' = collected
               /\ metadata' = finalized
               /\ before' = [metadata |-> finalized, images |-> collected]
               /\ pc' = "enhance"
               /\ UNCHANGED lastExtract
  /\ UNCHANGED <<ExtractFrame, enhancement>>

\* The extraction returns the metadata and the image list.
ReturnData(meta, imgs) ==
  /\ metadata' = meta
  /\ images' = imgs
  /\ lastExtract' = IF imgs = <<>> THEN "noimages" ELSE "images"
  /\ pc' = "returned"

\* The enhancement step, the update of the image entries, and the return.
\* Using a None result raises (AttributeError), which nothing catches here.
Enhance ==
  /\ pc = "enhance"
  /\ \E answer \in Answers :
       LET enhanced == enhance_metadata_with_llm(anthropic_client, answer)
           wanted == IF site = "socks-studio"
                     THEN \/ metadata["author"] = Unknown
                          \/ metadata["year"] = Unknown
                          \/ metadata["medium"] = Unknown
                          \/ "keywords" \notin DOMAIN metadata
                     ELSE "keywords" \notin DOMAIN metadata
       IN /\ enhancement' = IF ~anthropic_client THEN NoAnswer("absent")
                            ELSE IF ~wanted THEN NoAnswer("not needed")
                            ELSE IF answer.raises THEN NoAnswer("raised")
                            ELSE [outcome |-> "answered", reply |-> answer.reply]
          /\ IF anthropic_client /\ wanted
             THEN IF HasResult(enhanced)
                  THEN IF enhanced[1]
                       THEN /\ lastExtract' = "raise"
                            /\ pc' = "returned"
                            /\ UNCHANGED <<metadata, images>>
                       ELSE IF site = "socks-studio"
                            THEN LET merged == MergeSocks(metadata, enhanced[2])
                                 IN ReturnData(merged, UpdateSocks(images, merged))
                            ELSE LET merged == MergePublicDomain(metadata, enhanced[2])
                                 IN ReturnData(merged, UpdatePublicDomain(images, merged))
                  ELSE IF site = "socks-studio"
                       THEN ReturnData(metadata, UpdateSocks(images, metadata))
                       ELSE ReturnData(metadata, UpdatePublicDomain(images, metadata))
             ELSE IF site = "socks-studio"
                  THEN ReturnData(metadata, images)
                  ELSE ReturnData(metadata, UpdatePublicDomain(images, metadata))
  /\ UNCHANGED <<ExtractFrame, before>>

NextExtract ==
  \/ CollectPage
  \/ Enhance

SpecExtract == InitExtract /\ [][NextExtract]_vars

\* ------------------------------------ several instances, one ledger file
\* An instance between two calls of save_processed_article.
Between(saves) ==
  [pc |-> "idle", saves |-> saves, url |-> 0, processed |-> load_nothing]

InitWriters ==
  /\ mode = "writers"
  /\ pc = "save"
  /\ site = "socks-studio"
  /\ sitePages = <<>>
  /\ article_urls = <<>>
  /\ MainIdle
  /\ ListingIdle
  /\ CaptionIdle
  /\ ExtractIdle
  /\ writers \in {[w \in 1..n |-> Between(0)] : n \in 1..MaxWriters}
  /\ written = {}

WritersFrame ==
  <<Persistent, remote, catalog, RunState, Session, History, pc,
    drive_folder_id, catalog_sheet_id, limit, failPage, lastPage, caption,
    parsed, anthropic_client, soup, elements, metadata, images, before,
    enhancement>>

\* The item an instance records in its k-th save: instance w starts at URL w
\* of the listing, so the work lists of two instances overlap.
ItemOf(w, k) == w + k - 1

\* save_processed_article, first half: processed = load_processed_articles().
LoadLedger(w) ==
  /\ writers[w].pc = "idle"
  /\ writers[w].saves < MaxSaves
  /\ writers' = [writers EXCEPT ![w] =
                   [pc |-> "loaded", saves |-> @.saves,
                    url |-> ItemOf(w, @.saves + 1),
                    processed |-> load_processed_articles]]
  /\ UNCHANGED <<tracking_file, written, WritersFrame>>

\* save_processed_article, second half: the insert and json.dump of the
\* whole dictionary.  The presentation id is the instance's number.
WriteLedger(w) ==
  /\ writers[w].pc = "loaded"
  /\ tracking_file' = save_processed_article(writers[w].processed,
                                             writers[w].url, w)
  /\ written' = written \cup {<<writers[w].url, w>>}
  /\ writers' = [writers EXCEPT ![w] = Between(@.saves + 1)]
  /\ UNCHANGED WritersFrame

NextWriters ==
  \/ \E w \in DOMAIN writers : LoadLedger(w)
  \/ \E w \in DOMAIN writers : WriteLedger(w)

SpecWriters == InitWriters /\ [][NextWriters]_vars

\* ================================================================ claims
\* The listing as the fetcher can return it: the links of the pages up to
\* the site's page ceiling.
PageCeiling(s) == IF s = "socks-studio" THEN SocksPageCeiling ELSE max_pages

Listing == Flatten(SubSeq(sitePages, 1, Min(Len(sitePages), PageCeiling(site))))

FirstN(s, n) == SubSeq(s, 1, Min(n, Len(s)))

NotInLedgerAtStart(u) == u \notin ledgerAtStart

ItemPcs == {"extract", "build", "move", "save", "catalog"}

Recorded == DOMAIN tracking_file

HasRow(u) == \E k \in 1..Len(catalog) : catalog[k][1] = u

\* C1: when no listing fetch fails, the work list of a run is exactly the
\* first min(count, k) URLs of the listing that were not in the ledger when
\* the run started, in listing order; process_article is called on the work
\* list in order, on all of it when run_batch finishes, and never on a URL
\* that was in the ledger at discovery time.
C1_WorkListIsFirstUnprocessed ==
  /\ (pc \in ItemPcs \cup {"process", "done"} /\ fetchErrors = 0)
       => article_urls = FirstN(SelectSeq(Listing, NotInLedgerAtStart), count)
  /\ attempted = SubSeq(article_urls, 1, i)
  /\ (mode = "cli" /\ pc = "done") => attempted = article_urls
  /\ \A k \in 1..Len(attempted) : attempted[k] \notin ledgerAtStart

\* The spec's scenario: listing [1, 2, 3], ledger {2}, count 2: 1 then 3.
C1_Witness ==
  /\ mode = "cli" /\ pc = "done" /\ fetchErrors = 0
  /\ Listing = <<1, 2, 3>> /\ ledgerAtStart = {2} /\ count = 2
  /\ attempted = <<1, 3>>

\* C2 as stated: a second run with the same count against the unchanged
\* listing builds no presentation and adds no ledger record.
C2_SecondRunDoesNothing ==
  run >= 2 => (createCalls = 0 /\ Recorded = ledgerAtStart)

\* C2 (amended): a later run against the unchanged listing processes nothing
\* when every listed URL was in the ledger at its start: its work list is
\* empty, it builds no presentation and adds no ledger record.
C2_NothingLeftNothingDone ==
  (run >= 2 /\ Range(Listing) \subseteq ledgerAtStart)
    => /\ article_urls = <<>>
       /\ attempted = <<>>
       /\ createCalls = 0
       /\ Recorded = ledgerAtStart

C2_Witness ==
  /\ run = 2 /\ pc = "done" /\ listingFetches > 0
  /\ Len(Listing) = 2 /\ Range(Listing) \subseteq ledgerAtStart

\* C3: every ledger record names a presentation that was built for its URL,
\* a record is written only by the save step of the item in flight with the
\* id the build returned, and a step that ends in a failure of extraction or
\* build leaves the ledger as it was.
C3_RecordOnlyAfterBuild ==
  /\ [](\A u \in Recorded : tracking_file[u] >= 1 /\ tracking_file[u] <= remote[u])
  /\ [][/\ tracking_file' # tracking_file
           => /\ pc = "save"
              /\ article_data = "images"
              /\ presentation_id # NoPresentation
              /\ tracking_file'[CurrentUrl] = presentation_id
        /\ pc \in {"extract", "build"} => tracking_file' = tracking_file]_vars

\* A URL whose build failed after the remote create is attempted again by the
\* next run.
C3_Witness ==
  /\ run = 2 /\ pc = "extract"
  /\ remote[CurrentUrl] >= 1
  /\ CurrentUrl \notin Recorded

C5_LedgerMonotone ==
  [][/\ \A u \in DOMAIN remote :
          is_article_processed(tracking_file, u)
            => /\ is_article_processed(tracking_file', u)
               /\ (pc = "save" /\ u # CurrentUrl) => tracking_file'[u] = tracking_file[u]
     /\ \A u \in DOMAIN remote :
          (~is_article_processed(tracking_file, u) /\ is_article_processed(tracking_file', u))
            => (pc = "save" /\ u = CurrentUrl)
     /\ (pc = "save" /\ pc' = "catalog")
          => is_article_processed(tracking_file', CurrentUrl)]_vars

\* A second URL has just been recorded next to an earlier one.
C5_Witness ==
  /\ pc = "catalog"
  /\ Cardinality(Recorded) >= 2
  /\ CurrentUrl \notin ledgerAtStart

\* C6: an extraction that gives no data or no images ends the item: the
\* builder is not entered, no remote create call is issued, nothing is
\* created remotely, and neither a ledger record nor a catalog row is
\* written; run_batch counts the item as skipped.
C6_NoImagesNoBuild ==
  [][/\ (pc = "extract" /\ lastExtract' \in {"None", "noimages"})
          => /\ pc' = "process"
             /\ mode = "cli" => skipped_count' = skipped_count + 1
     /\ (\/ createCalls' > createCalls
         \/ remote' # remote
         \/ tracking_file' # tracking_file
         \/ catalog' # catalog)
          => (pc # "extract" /\ lastExtract = "images")]_vars

\* An item with an empty image list has just been skipped.
C6_Witness ==
  /\ pc = "process" /\ i = 1 /\ lastExtract = "noimages"
  /\ mode = "cli" /\ skipped_count = 1 /\ createCalls = 0

C8_AtMostOnePresentation == \A u \in DOMAIN remote : remote[u] <= 1

\* C9 as stated: a catalog row is appended only after the ledger record, no
\* URL has two rows, and at the end of a run every URL recorded during the
\* run has a row.
C9_OneRowPerRecord ==
  /\ \A k \in 1..Len(catalog) : catalog[k][1] \in Recorded
  /\ \A a, b \in 1..Len(catalog) : catalog[a][1] = catalog[b][1] => a = b
  /\ pc = "done" => \A u \in Recorded \ ledgerAtStart : HasRow(u)

\* C10: with an unknown site or without credentials the run is aborted
\* during setup: no listing call, no extraction, no build, and the ledger,
\* the catalog and the remote store stay as they were.
C10_SetupFailureAborts ==
  /\ []((site \notin KnownSites \/ ~credentials)
          => /\ pc \in {"start", "constructed", "aborted"}
             /\ listingFetches = 0
             /\ attempted = <<>>
             /\ createCalls = 0)
  /\ [][(site \notin KnownSites \/ ~credentials)
          => UNCHANGED <<tracking_file, catalog, remote>>]_vars

C10_Witness ==
  /\ pc = "aborted" /\ site \in KnownSites /\ ~credentials

\* ---------------------------------------------------- controller claims
NoRepeat(s) == \A a, b \in 1..Len(s) : s[a] = s[b] => a = b

\* C21: once run_batch has set up its services it reaches DONE, whatever
\* the listing, the target count and the failures of the items; at DONE
\* every entry of the work list has been attempted once, in order (no URL
\* twice when no listing fetch failed), and created + skipped is the length
\* of the work list.
C21_RunBatchTerminates ==
  /\ (mode = "cli" /\ pc = "discover") ~> (pc = "done")
  /\ []((mode = "cli" /\ pc = "done")
          => /\ i = Len(article_urls)
             /\ attempted = article_urls
             /\ fetchErrors = 0 => NoRepeat(attempted)
             /\ Len(created_presentations) + skipped_count = Len(article_urls))

\* Two items, the first failed in the build and the second in extraction.
C21_Witness ==
  /\ mode = "cli" /\ pc = "done"
  /\ Len(article_urls) = 2 /\ attempted = article_urls
  /\ skipped_count = 2 /\ created_presentations = <<>>
  /\ createCalls = 1

\* A round of the discovery loop: one listing call.
ListingCall == listingFetches' = listingFetches + 1

\* C22 as stated: each round asks for batch_size more URLs than were seen
\* so far, no listing call is made once count unprocessed URLs are in the
\* work list, the loop ends when a round returns no more URLs than the
\* previous one (after a round that leaves the loop running, more URLs have
\* been seen than before), and the loop terminates.
C22_IncrementalDiscovery ==
  /\ [][(mode = "cli" /\ ListingCall)
          => /\ limit' = fetched_count + batch_size
             /\ Len(article_urls) < count
             /\ pc' = "discover" => fetched_count' > fetched_count]_vars
  /\ (mode = "cli" /\ pc = "discover") ~> (pc # "discover")

\* The discovery loop of run_batch is running or has just ended.
Discovering == mode = "cli" /\ (pc = "discover" \/ (pc = "process" /\ i = 0))

\* C29 as stated: at every point of the discovery loop the work list holds
\* at most count URLs, no URL twice, and no URL that is in the ledger, also
\* when successive listing calls return different results.
C29_WorkListWellFormed ==
  Discovering =>
    /\ Len(article_urls) <= count
    /\ NoRepeat(article_urls)
    /\ \A k \in 1..Len(article_urls) : article_urls[k] \notin Recorded

\* C30 as stated: at DONE the created count of run_batch is the number of
\* ledger records added during the run (an item counted as created has a
\* record written in the run, an item counted as skipped has none), whatever
\* the point at which an item failed.
C30_CreatedCountIsRecordsAdded ==
  (mode = "cli" /\ pc = "done") =>
    /\ Len(created_presentations) = Cardinality(Recorded \ ledgerAtStart)
    /\ \A k \in 1..Len(created_presentations) :
         created_presentations[k][1] \in Recorded \ ledgerAtStart

\* -------------------------------------------------------- ledger claims
\* C25: the ledger write puts back what the writing instance loaded plus its
\* own record (load-all, insert, write-all).  With a single instance every
\* record written stays in the file; with several, a write drops exactly the
\* records that were added to the file after the writer's load.
C25_WholeSnapshotWrite ==
  /\ [](Len(writers) = 1 => \A r \in written : r[1] \in DOMAIN tracking_file)
  /\ [][tracking_file' # tracking_file
          => \E w \in DOMAIN writers :
               /\ writers[w].pc = "loaded"
               /\ writers'[w].pc = "idle"
               /\ DOMAIN tracking_file' =
                    DOMAIN writers[w].processed \cup {writers[w].url}]_vars

\* The lost update: both instances have written, and the record of instance
\* 1 for URL 1 is absent from the file after the write of instance 2.
C25_Witness ==
  /\ Len(writers) = 2
  /\ written = {<<1, 1>>, <<2, 2>>}
  /\ writers[1].pc = "idle" /\ writers[2].pc = "idle"
  /\ DOMAIN tracking_file = {2}
  /\ tracking_file[2] = 2

\* ------------------------------------------------ listing fetcher claims
FirstIndex(s, x) == CHOOSE k \in 1..Len(s) : s[k] = x /\ \A j \in 1..(k - 1) : s[j] # x

\* r lists elements of s, each once, in the order of their first place in s.
InFirstSeenOrder(r, s) ==
  /\ NoRepeat(r)
  /\ Range(r) \subseteq Range(s)
  /\ \A a, b \in 1..Len(r) : a < b => FirstIndex(s, r[a]) < FirstIndex(s, r[b])

\* The links of pages 1..p in page order.
LinksUpTo(p) == Flatten(SubSeq(sitePages, 1, Min(p, Len(sitePages))))

\* C11: the list get_article_urls returns holds no URL twice, and its URLs
\* are in the order of their first discovery (page 1 first, then the order
\* within a page).
C11_NoRepeatInDiscoveryOrder ==
  pc = "returned" => InFirstSeenOrder(article_urls, Flatten(sitePages))

\* C23 as stated: pagination stops at the first page that yields no new
\* link: every page before the last one requested added a URL that was not
\* collected before.
C23_StopsAtPageWithoutNewLinks ==
  pc = "returned"
    => \A p \in 1..(lastPage - 1) :
         Range(LinksUpTo(p)) # Range(LinksUpTo(p - 1))

\* C23 (amended): pagination stops at the first page on which no item is
\* found: every page before the last one requested held an item, so no page
\* after a page without items is requested.  (Every item carries a link.)
C23_StopsAtEmptyPage ==
  pc = "returned"
    => \A p \in 1..(lastPage - 1) : LinksOf(sitePages, p) # <<>>

\* Page 2 repeats links of page 1; page 3, which has no links, ended the call.
C23_Witness ==
  /\ pc = "returned"
  /\ limit = NoLimit
  /\ failPage = 0
  /\ sitePages = <<<<1, 2>>, <<2, 1>>>>
  /\ lastPage = 3
  /\ article_urls = <<1, 2>>

\* C24: a call of get_article_urls ends after requesting at most the page
\* ceiling of its site (50, 23) pages, whatever the listing and the limit:
\* it returns with the last requested page between 1 and the ceiling, and
\* for an unknown site it raises before any request.
C24_PageCeiling ==
  pc # "call"
    => IF UnknownSite(site)
       THEN pc = "raised" /\ lastPage = 0
       ELSE /\ pc = "returned"
            /\ lastPage \in 1..(IF site = "socks-studio" THEN 50 ELSE 23)

\* Every page gave new links and there was no limit: the call stopped at the
\* ceiling with the links of that many pages.
C24_Witness ==
  /\ pc = "returned"
  /\ sitePages = LongListing
  /\ limit = NoLimit
  /\ failPage = 0
  /\ \/ site = "socks-studio" /\ lastPage = 50
     \/ site = "public-domain-review" /\ lastPage = 23
  /\ Len(article_urls) = lastPage * PageSize
  /\ lastPage < Len(sitePages)

\* A listing that repeats links within a page and across pages.
C11_Witness ==
  /\ pc = "returned"
  /\ sitePages = <<<<2, 2>>, <<1, 2>>>>
  /\ limit = NoLimit
  /\ failPage = 0
  /\ article_urls = <<2, 1>>

\* C12 as stated: with a limit (0 included) the call returns at most limit
\* URLs, and requests no further page once the pages it has read gave limit
\* URLs.
C12_LimitBoundsResult ==
  (pc = "returned" /\ limit # NoLimit)
    => /\ Len(article_urls) <= limit
       /\ \A p \in 1..(lastPage - 1) : Cardinality(Range(LinksUpTo(p))) < limit

\* C13: a fetch error on page p ends the call: it returns (nothing is
\* raised) exactly the URLs of pages 1..p-1, and no page after p is requested.
C13_FetchErrorEndsPagination ==
  (ValidSite(site) /\ pc # "call" /\ failPage >= 1 /\ lastPage >= failPage)
    => /\ pc = "returned"
       /\ lastPage = failPage
       /\ InFirstSeenOrder(article_urls, LinksUpTo(failPage - 1))
       /\ Range(article_urls) = Range(LinksUpTo(failPage - 1))

\* The fetch of page 2 fails after page 1 gave two URLs.
C13_Witness ==
  /\ pc = "returned"
  /\ failPage = 2
  /\ lastPage = 2
  /\ Len(sitePages) = 2
  /\ article_urls = <<1, 2>>

\* ------------------------------------------------- caption parser claims
\* The comma-separated segments of the caption, each a sequence of words.
RECURSIVE SegmentsOf(_, _)
SegmentsOf(items, segment) ==
  IF items = <<>> THEN <<segment>>
  ELSE LET word == Head(items)[1]
           more == IF word = <<>> THEN segment ELSE Append(segment, word)
       IN IF Head(items)[2] THEN <<more>> \o SegmentsOf(Tail(items), <<>>)
          ELSE SegmentsOf(Tail(items), more)

Segments == SegmentsOf(caption, <<>>)

\* The text of a segment: its words one blank apart.
RECURSIVE TextOf(_)
TextOf(segment) ==
  IF segment = <<>> THEN <<>>
  ELSE IF Len(segment) = 1 THEN segment[1]
  ELSE segment[1] \o <<" ">> \o TextOf(Tail(segment))

Occurs(sub, s) ==
  \E k \in 1..(Len(s) - Len(sub) + 1) : SubSeq(s, k, k + Len(sub) - 1) = sub

Returned(field, text) == field \in DOMAIN parsed /\ parsed[field] = text

YearNotIn(field) ==
  field \in DOMAIN parsed => ~Occurs(parsed["year"], parsed[field])

\* A 4-digit token beginning with 1 or 20.
LooksLikeYear(word) ==
  /\ word \in NumberTokens
  /\ word[1] = "1" \/ (word[1] = "2" /\ word[2] = "0")

\* The year tokens of the caption.
YearTokens == {caption[k][1] : k \in 1..Len(caption)} \cap {w \in NumberTokens : LooksLikeYear(w)}

\* C14 as stated: a caption of two or more (non-empty) segments that
\* contains a 4-digit year token gives that token as year, and the token is
\* in neither the returned title nor the returned medium.
C14_YearExtracted ==
  (/\ pc = "returned"
   /\ Len(Segments) >= 2
   /\ \A k \in 1..Len(Segments) : Segments[k] # <<>>
   /\ YearTokens # {})
    => /\ "year" \in DOMAIN parsed
       /\ parsed["year"] \in YearTokens
       /\ YearNotIn("title")
       /\ YearNotIn("medium")

RECURSIVE Concat(_)
Concat(segments) ==
  IF segments = <<>> THEN <<>> ELSE Head(segments) \o Concat(Tail(segments))

\* The year tokens after the first segment, in caption order.
YearsAfterArtist == SelectSeq(Concat(Tail(Segments)), LooksLikeYear)

\* C14, amended: when the text after the first segment holds a 4-digit token
\* beginning with 1 or 20, the first such token is returned as year and is in
\* neither the returned title nor the returned medium; without such a token
\* no year is returned.
C14_FirstYearAfterArtist ==
  (pc = "returned" /\ Len(Segments) >= 2)
    => IF YearsAfterArtist # <<>>
       THEN /\ Returned("year", YearsAfterArtist[1])
            /\ YearNotIn("title")
            /\ YearNotIn("medium")
       ELSE "year" \notin DOMAIN parsed

\* The year stands twice after the artist, once inside the title.
C14_Witness ==
  /\ pc = "returned"
  /\ caption = <<<<<<"a">>, TRUE>>, <<<<"1", "9", "8", "7">>, FALSE>>,
                 <<<<"b">>, TRUE>>, <<<<"1", "9", "8", "7">>, FALSE>>>>
  /\ Returned("year", <<"1", "9", "8", "7">>)
  /\ Returned("title", <<"b">>)

PlainWords(segment) ==
  segment # <<>> /\ \A k \in 1..Len(segment) : segment[k] \in WordTokens

\* "Artist, Title, Year, medium", the example of the specification.
YearCommaMedium ==
  /\ Len(Segments) = 4
  /\ PlainWords(Segments[1]) /\ PlainWords(Segments[2])
  /\ Len(Segments[3]) = 1 /\ LooksLikeYear(Segments[3][1])
  /\ PlainWords(Segments[4])

\* "Artist, Title, Year medium"
YearThenMedium ==
  /\ Len(Segments) = 3
  /\ PlainWords(Segments[1]) /\ PlainWords(Segments[2])
  /\ Segments[3] # <<>> /\ LooksLikeYear(Segments[3][1])
  /\ PlainWords(Tail(Segments[3]))

\* "Artist, Title, medium, Year"
MediumThenYear ==
  /\ Len(Segments) = 4
  /\ PlainWords(Segments[1]) /\ PlainWords(Segments[2])
  /\ PlainWords(Segments[3])
  /\ Len(Segments[4]) = 1 /\ LooksLikeYear(Segments[4][1])

\* C15 as stated: for a caption of artist, title, medium and year in either
\* documented format, artist is the first segment, title the segment after
\* it, and medium the medium text.
C15_ArtistTitleMedium ==
  pc = "returned" =>
    /\ (YearCommaMedium \/ YearThenMedium \/ MediumThenYear)
         => /\ Returned("artist", TextOf(Segments[1]))
            /\ Returned("title", TextOf(Segments[2]))
    /\ YearCommaMedium => Returned("medium", TextOf(Segments[4]))
    /\ YearThenMedium => Returned("medium", TextOf(Tail(Segments[3])))
    /\ MediumThenYear => Returned("medium", TextOf(Segments[3]))

\* ------------------------------------------------------ extractor claims
Extracted == pc = "returned" /\ lastExtract \in {"images", "noimages"}

ItemKey(field) == IF field = "artist" THEN "author" ELSE field

\* The caption supplies a non-empty value other than "Unknown" for the field.
Supplies(own, field) ==
  field \in DOMAIN own /\ own[field] # <<>> /\ own[field] # Unknown

\* C16: for every image and each of artist, title, year, medium on its own,
\* the final value is the one parsed from the image's caption when the caption
\* supplies one, and otherwise the item's final value for that field.
C16_PerFieldFallback ==
  Extracted =>
    \A k \in 1..Len(images) :
      LET own == parse_figcaption(images[k].caption)
      IN \A field \in {"artist", "title", "year", "medium"} :
           images[k][field] = IF Supplies(own, field) THEN own[field]
                              ELSE metadata[ItemKey(field)]

\* A caption gives artist and title; the year comes from the item, which got
\* it from the enhancer.
C16_Witness ==
  /\ Extracted
  /\ site = "socks-studio"
  /\ Len(images) = 1
  /\ images[1].caption = Render(ArtistTitle)
  /\ images[1].artist = <<"a">>
  /\ before.metadata["year"] = Unknown
  /\ before.metadata["author"] # Unknown
  /\ images[1].year = <<"2", "0", "0", "5">>

\* The element was taken into the list before de-duplication.
Collected(j) == ~Rejected(site, elements[j])

\* C17: the returned image list holds no URL twice; the entry kept for a URL
\* is its first occurrence on the page, and the entries are in page order.
C17_FirstOccurrenceKept ==
  Extracted =>
    /\ \A a, b \in 1..Len(images) : images[a].url = images[b].url => a = b
    /\ \A a, b \in 1..Len(images) : a < b => images[a].element < images[b].element
    /\ \A k \in 1..Len(images) :
         /\ elements[images[k].element].url = images[k].url
         /\ images[k].caption = CaptionText(elements[images[k].element])
         /\ \A j \in 1..(images[k].element - 1) :
              Collected(j) => elements[j].url # images[k].url
    /\ \A j \in 1..Len(elements) :
         Collected(j) => \E k \in 1..Len(images) : images[k].url = elements[j].url

\* Two elements with the same URL and different captions: the first is kept.
C17_Witness ==
  /\ Extracted
  /\ Len(elements) = 2
  /\ elements[1].url = elements[2].url
  /\ elements[1].caption = ArtistTitle
  /\ elements[2].caption = NoCaption
  /\ Len(images) = 1
  /\ images[1].caption = Render(ArtistTitle)

\* C18 as stated: for every site, an element whose width and height are both
\* declared, with one of them below 50, is not in the returned image list.
C18_SmallImageRejected ==
  Extracted =>
    \A k \in 1..Len(images) :
      LET element == elements[images[k].element]
      IN ~(/\ element.width # NoAttribute
           /\ element.height # NoAttribute
           /\ element.width < 50 \/ element.height < 50)

\* The step went through the enhancer's reply.
Answered == Extracted /\ enhancement.outcome = "answered"

ReplyLabel(key) ==
  IF key = "author" THEN "Artist" ELSE IF key = "year" THEN "Year" ELSE "Medium"

\* C19: for each of author, year, medium, a value that was not "Unknown"
\* before the enhancement is the same after it, and a value the service
\* reports as "Unknown" is not stored.
C19_ResolvedNeverOverwritten ==
  Extracted =>
    \A key \in {"author", "year", "medium"} :
      /\ before.metadata[key] # Unknown => metadata[key] = before.metadata[key]
      /\ (Answered /\ Get(enhancement.reply, ReplyLabel(key)) = Unknown)
           => metadata[key] = before.metadata[key]

\* The author was resolved and the service names another; the year was not
\* and the service says "Unknown"; the medium is filled in.
C19_Witness ==
  /\ Answered
  /\ site = "socks-studio"
  /\ before.metadata["author"] = <<"a", "b">>
  /\ Get(enhancement.reply, "Artist") = <<"a", "a">>
  /\ metadata["author"] = <<"a", "b">>
  /\ before.metadata["year"] = Unknown
  /\ Get(enhancement.reply, "Year") = Unknown
  /\ metadata["year"] = Unknown
  /\ before.metadata["medium"] = Unknown
  /\ metadata["medium"] = <<"a", "a">>

\* The enhancement step ended without a reply: no key, or the call raised.
EnhancerFailed ==
  /\ pc = "returned"
  /\ enhancement.outcome \in {"absent", "raised"}

\* C20 as stated: without an API key, or when the call raises, the
\* extraction returns the item with exactly the metadata and the image list
\* it had before the enhancement step, and the item goes on to the builder.
C20_EnhancerFailureChangesNothing ==
  EnhancerFailed =>
    /\ Extracted
    /\ metadata = before.metadata
    /\ images = before.images
    /\ images # <<>> => HasImages(lastExtract)

\* C20, amended: the metadata is the one before the step; the image list has
\* the same entries, except that for public-domain-review an entry whose
\* medium was "Unknown" has the item's medium.
C20_EnhancerFailureNonFatal ==
  EnhancerFailed =>
    /\ Extracted
    /\ metadata = before.metadata
    /\ Len(images) = Len(before.images)
    /\ \A k \in 1..Len(images) :
         images[k] =
           IF site = "public-domain-review" /\ before.images[k].medium = Unknown
           THEN [before.images[k] EXCEPT !.medium = metadata["medium"]]
           ELSE before.images[k]
    /\ images # <<>> => HasImages(lastExtract)

\* The call raised on an item with an unresolved author and one image.
C20_Witness ==
  /\ pc = "returned"
  /\ enhancement.outcome = "raised"
  /\ metadata["author"] = Unknown
  /\ Len(images) = 1
  /\ lastExtract = "images"

\* The URL of element j is in the returned image list.
Kept(j) == \E k \in 1..Len(images) : images[k].url = elements[j].url

\* The element passes every test of the loop but the probe.
ReachesProbe(element) ==
  /\ element.figure
  /\ ~MarkedSmall(site, element.marker)
  /\ ~TooSmall(element.width, element.height)

\* C27: for socks-studio, an image that reaches the byte-size probe is left
\* out only when the probe succeeds and reports a content length below 5000;
\* when the probe raises, or reports no or an unparsable content length, the
\* image is kept.
C27_ProbeFailsOpen ==
  (Extracted /\ site = "socks-studio") =>
    \A j \in 1..Len(elements) :
      LET probe == elements[j].probe
      IN ReachesProbe(elements[j]) =>
           /\ ~Kept(j) => /\ ~probe.raises
                          /\ probe.content_length \notin {NoHeader, Unparsable}
                          /\ probe.content_length < 5000
           /\ (\/ probe.raises
               \/ probe.content_length \in {NoHeader, Unparsable}) => Kept(j)

\* One probe raises and the image is kept, the other reports 4999 bytes and
\* the image is left out.
C27_Witness ==
  /\ Extracted
  /\ site = "socks-studio"
  /\ Len(elements) = 2
  /\ ReachesProbe(elements[1]) /\ ReachesProbe(elements[2])
  /\ elements[1].probe.raises
  /\ ~elements[2].probe.raises
  /\ elements[2].probe.content_length = 4999
  /\ Kept(1)
  /\ ~Kept(2)

\* C28 as stated: for socks-studio every image of the output comes from a
\* <figure> that also carries a caption element; an image in a figure
\* without a caption element is not enumerated.
C28_OnlyCaptionedFigures ==
  (Extracted /\ site = "socks-studio") =>
    \A k \in 1..Len(images) :
      /\ elements[images[k].element].figure
      /\ elements[images[k].element].figcaption

\* C28, amended: every image of the output comes from a <figure>; the figure
\* need not carry a caption element: its image is enumerated like the others
\* and its entry has an empty caption.
C28_OnlyFigures ==
  (Extracted /\ site = "socks-studio") =>
    /\ \A k \in 1..Len(images) :
         /\ elements[images[k].element].figure
         /\ ~elements[images[k].element].figcaption => images[k].caption = <<>>
    /\ \A j \in 1..Len(elements) :
         (/\ ReachesProbe(elements[j])
          /\ ~elements[j].figcaption
          /\ elements[j].probe = NoLength) => Kept(j)

\* A figure without a caption element gives an entry with an empty caption;
\* an img outside every figure gives none.
C28_Witness ==
  /\ Extracted
  /\ site = "socks-studio"
  /\ Len(elements) = 2
  /\ elements[1].figure /\ ~elements[1].figcaption
  /\ ~elements[2].figure
  /\ elements[2].url # elements[1].url
  /\ Len(images) = 1
  /\ images[1].element = 1
  /\ images[1].caption = <<>>

\* A block is usable when reading it alone sets a field.
Usable(block) == ReadBlock(site, FreshMetadata, block) # FreshMetadata

\* The first usable block of the page, as a list (empty when there is none).
FirstUsableBlock ==
  LET scripts == soup.json_ld_scripts
      usable == {k \in 1..Len(scripts) : Usable(scripts[k])}
  IN IF usable = {} THEN <<>>
     ELSE <<scripts[CHOOSE k \in usable : \A j \in usable : k <= j]>>

\* C26 as stated: on a page with structured-data blocks, the item's author,
\* title, year and medium are what the first usable block alone gives (with
\* the heading and the site's defaults for what it leaves open): later
\* blocks add nothing and overwrite nothing.
C26_FirstBlockOnly ==
  (pc = "enhance" /\ soup.json_ld_scripts # <<>>)
    => metadata =
         Finalized(site, ReadPage(site, FreshMetadata,
                                  [soup EXCEPT !.json_ld_scripts = FirstUsableBlock]))
====
